---- MODULE Spec2Model ----
(* State-machine model of the NBT decoder of decode.go: Unmarshal, the     *)
(* stream reads (r, readString, readTag) and the recursive readValue.      *)
(* Integers are kept as big-endian two's-complement byte sequences of the  *)
(* width the Go code gives them, so truncation and extension are visible.  *)
EXTENDS Integers, Sequences, FiniteSets, TLC

VARIABLES pc, call, stack, dest, dtype, dest0, pos, ev, err, short

vars == <<pc, call, stack, dest, dtype, dest0, pos, ev, err, short>>

(* ---------------- bounds of the explored inputs ---------------- *)
MaxStream == 16
MaxName == 1
MaxStr == 2
MaxArr == 2
MaxCap == 2
MaxCount == 2

(* ---------------- tags ---------------- *)
TAG_End == 0
TAG_Byte == 1
TAG_Short == 2
TAG_Int == 3
TAG_Long == 4
TAG_Float == 5
TAG_Double == 6
TAG_Byte_Array == 7
TAG_String == 8
TAG_List == 9
TAG_Compound == 10
TAG_Int_Array == 11
TAG_Other == TAG_Int_Array + 1

TagBytes == TAG_End..TAG_Other
NameBytes == {97, 98}
ArrBytes == {0, 255}

(* payload byte values explored for a fixed-width read of w bytes *)
ByteVals(w) ==
  CASE w = 1 -> {0, 1, 127, 128, 255}
    [] w = 2 -> {0, 1, 127, 128, 255}
    [] w = 4 -> {0, 128, 255}
    [] OTHER -> {0, 255}

(* ---------------- destination types (reflect.Type) ---------------- *)
NoFields == [n \in {} |-> 0]

IntKinds == {"int8", "int16", "int32", "int64"}
UintKinds == {"uint8", "uint16", "uint32", "uint64"}
ArchKinds == {"int", "uint"}
FloatKinds == {"float32", "float64"}
ScalarKinds == {"bool", "string"} \cup IntKinds \cup UintKinds \cup ArchKinds \cup FloatKinds

Scalar(k) == [kind |-> k, cap |-> 0, elem |-> "", fields |-> NoFields]
ArrayT(c) == [kind |-> "array", cap |-> c, elem |-> "uint8", fields |-> NoFields]
SliceT(e) == [kind |-> "slice", cap |-> 0, elem |-> e, fields |-> NoFields]
StructT(f) == [kind |-> "struct", cap |-> 0, elem |-> "", fields |-> f]

(* element type of a slice type; "struct" stands for struct{} *)
Elem(t) == IF t.elem = "struct" THEN StructT(NoFields) ELSE Scalar(t.elem)

Kind(t) == t.kind

Width(k) ==
  CASE k \in {"int8", "uint8", "bool"} -> 1
    [] k \in {"int16", "uint16"} -> 2
    [] k \in {"int32", "uint32", "float32"} -> 4
    [] OTHER -> 8

NameA == <<97>>
NameB == <<98>>

ElemKinds == {"uint8", "int32", "uint32", "int", "string", "struct"}
LeafTypes == {Scalar(k) : k \in ScalarKinds}
               \cup {ArrayT(c) : c \in 0..MaxCap}
               \cup {SliceT(e) : e \in ElemKinds}
SmallTypes == {Scalar("int8"), Scalar("int32"), Scalar("int")}
InnerStructs == {StructT(NoFields), StructT([n \in {NameA} |-> Scalar("int16")])}
FieldTypes == LeafTypes \cup InnerStructs
StructTypes == {StructT(NoFields)}
                 \cup {StructT([n \in {NameA} |-> t]) : t \in FieldTypes}
                 \cup {StructT([n \in {NameA, NameB} |-> IF n = NameA THEN t ELSE u]) :
                         t \in SmallTypes, u \in SmallTypes}
DestTypes == LeafTypes \cup StructTypes

(* ---------------- values ---------------- *)
Rep(n, b) == [i \in 1..n |-> b]

RECURSIVE Fill(_, _)
Fill(t, b) ==
  CASE t.kind = "bool" -> (b # 0)
    [] t.kind = "string" -> IF b = 0 THEN <<>> ELSE <<b>>
    [] t.kind = "array" -> Rep(t.cap, b)
    [] t.kind = "slice" ->
         IF b = 0 THEN [len |-> 0, cap |-> 0, arr |-> <<>>]
         ELSE [len |-> 1, cap |-> 2, arr |-> <<Fill(Elem(t), b), Fill(Elem(t), 0)>>]
    [] t.kind = "struct" -> [n \in DOMAIN t.fields |-> Fill(t.fields[n], b)]
    [] OTHER -> Rep(Width(t.kind), b)

Zero(t) == Fill(t, 0)
Marked(t) == Fill(t, 85)
InitVals(t) == {Zero(t), Marked(t)}

RECURSIVE TypeAt(_, _)
TypeAt(t, path) ==
  IF path = <<>> THEN t ELSE TypeAt(t.fields[Head(path)], Tail(path))

RECURSIVE GetAt(_, _)
GetAt(v, path) ==
  IF path = <<>> THEN v ELSE GetAt(v[Head(path)], Tail(path))

RECURSIVE SetAt(_, _, _)
SetAt(v, path, x) ==
  IF path = <<>> THEN x
  ELSE [v EXCEPT ![Head(path)] = SetAt(v[Head(path)], Tail(path), x)]

(* ---------------- integer conversions on byte sequences ---------------- *)
Trunc(bs, w) == SubSeq(bs, Len(bs) - w + 1, Len(bs))
ZeroExtend(bs, w) == Rep(w - Len(bs), 0) \o bs
SignExtend(bs, w) == Rep(w - Len(bs), IF bs[1] >= 128 THEN 255 ELSE 0) \o bs

RECURSIVE Unsigned(_)
Unsigned(bs) ==
  IF bs = <<>> THEN 0 ELSE Unsigned(SubSeq(bs, 1, Len(bs) - 1)) * 256 + bs[Len(bs)]

Signed(bs) ==
  (IF bs[1] >= 128 THEN bs[1] - 256 ELSE bs[1]) * (2 ^ (8 * (Len(bs) - 1)))
    + Unsigned(Tail(bs))

(* ---------------- errors (the values Unmarshal returns) ---------------- *)
MkErr(ty, tag, kind, name, a, b) ==
  [type |-> ty, tag |-> tag, kind |-> kind, name |-> name, a |-> a, b |-> b]
NoErr == MkErr("nil", 0, "", <<>>, 0, 0)
IOErr == MkErr("io", 0, "", <<>>, 0, 0)
ConfigErr == MkErr("config", 0, "", <<>>, 0, 0)
ReflectErr == MkErr("reflect", 0, "", <<>>, 0, 0)
PortabilityErr == MkErr("portability", 0, "", <<>>, 0, 0)
MismatchErr(tag, kind) == MkErr("mismatch", tag, kind, <<>>, 0, 0)
ByteArrayLenErr(length, n) == MkErr("bytearray_len", TAG_Byte_Array, "array", <<>>, length, n)
UnhandledFieldErr(tag, name) == MkErr("unhandled_field", tag, "", name, 0, 0)
UnhandledTagErr(tag) == MkErr("unhandled_tag", tag, "", <<>>, 0, 0)

(* ---------------- the stream ---------------- *)
(* The input is any io.Reader: each read draws the bytes it delivers.      *)
LenVals(w, max) == {[i \in 1..w |-> IF i = w THEN n ELSE 0] : n \in 0..max}
Payloads(w) == [1..w -> ByteVals(w)]

(* d.r: binary.Read fills the whole value (io.ReadFull) or fails *)
r(p, w, vals) ==
  {[ok |-> TRUE, val |-> b, pos |-> p + w] : b \in IF p + w <= MaxStream THEN vals ELSE {}}
    \cup {[ok |-> FALSE, val |-> <<>>, pos |-> p]}

(* d.in.Read(buf) with len(buf) = n: one Read call, which may deliver      *)
(* fewer than n bytes with a nil error, or fail (a failing call is taken   *)
(* to deliver nothing)                                                     *)
Read(p, n, alphabet) ==
  UNION {{[ok |-> TRUE, val |-> b, pos |-> p + m] : b \in [1..m -> alphabet]} :
           m \in {k \in 0..n : (k >= 1 \/ n = 0) /\ p + k <= MaxStream}}
    \cup {[ok |-> FALSE, val |-> <<>>, pos |-> p]}

readString(p, max) ==
  UNION {IF ~l.ok THEN {[ok |-> FALSE, val |-> <<>>, pos |-> p, short |-> FALSE]}
         ELSE LET length == Unsigned(l.val) IN
              {IF ~o.ok THEN [ok |-> FALSE, val |-> <<>>, pos |-> o.pos, short |-> FALSE]
               ELSE [ok |-> TRUE, val |-> o.val \o Rep(length - Len(o.val), 0),
                     pos |-> o.pos, short |-> Len(o.val) < length] :
                 o \in Read(l.pos, length, NameBytes)} :
           l \in r(p, 2, LenVals(2, max))}

readTagAlwaysNamed(p) ==
  UNION {IF ~t.ok THEN {[ok |-> FALSE, tag |-> 0, name |-> <<>>, pos |-> p, short |-> FALSE]}
         ELSE {[ok |-> s.ok, tag |-> t.val[1], name |-> s.val, pos |-> s.pos, short |-> s.short] :
                 s \in readString(t.pos, MaxName)} :
           t \in r(p, 1, [1..1 -> TagBytes])}

readTag(p) ==
  UNION {IF ~t.ok THEN {[ok |-> FALSE, tag |-> 0, name |-> <<>>, pos |-> p, short |-> FALSE]}
         ELSE IF t.val[1] = TAG_End
              THEN {[ok |-> TRUE, tag |-> TAG_End, name |-> <<>>, pos |-> t.pos, short |-> FALSE]}
              ELSE {[ok |-> s.ok, tag |-> t.val[1], name |-> s.val, pos |-> s.pos, short |-> s.short] :
                      s \in readString(t.pos, MaxName)} :
           t \in r(p, 1, [1..1 -> TagBytes])}

(* ---------------- control state ---------------- *)
Root == [addr |-> TRUE, path |-> <<>>]
NoCall == [tag |-> 0, slot |-> Root]
Frame(fn, slot, typ, inner, length, value, state) ==
  [fn |-> fn, slot |-> slot, typ |-> typ, inner |-> inner, length |-> length,
   i |-> 0, value |-> value, state |-> state]
Top == stack[Len(stack)]
Pop(s) == SubSeq(s, 1, Len(s) - 1)
SetTop(s, f) == [s EXCEPT ![Len(s)] = f]

(* the reflect.Value a slot denotes: the destination tree, or the          *)
(* reflect.Zero temporary of the enclosing list iteration                  *)
SlotType(slot) == IF slot.addr THEN TypeAt(dtype, slot.path) ELSE Elem(Top.typ)
SlotValue(slot) == IF slot.addr THEN GetAt(dest, slot.path) ELSE Top.value

Event(op, tag, kind, slot, payload, declared, name) ==
  [op |-> op, tag |-> tag, kind |-> kind, slot |-> slot, payload |-> payload,
   declared |-> declared, name |-> name]
NoEvent == Event("none", 0, "", Root, <<>>, 0, <<>>)

Init ==
  /\ pc = "init"
  /\ call = NoCall
  /\ stack = <<>>
  /\ dtype \in DestTypes
  /\ dest \in InitVals(dtype)
  /\ dest0 = dest
  /\ pos = 0
  /\ ev = NoEvent
  /\ err = NoErr
  /\ short = FALSE

(* a panic, recovered by Unmarshal's deferred function *)
Fail(e) == pc' = "done" /\ err' = e /\ call' = call
Return == pc' = "ret" /\ err' = err /\ call' = call

(* Unmarshal -> decodeState.init *)
decodeState_init ==
  /\ pc = "init"
  /\ \E inNil \in BOOLEAN, compression \in {"Uncompressed", "GZip", "ZLib", "other"},
        headerOK \in BOOLEAN :
       IF inNil \/ compression = "other" \/ (compression # "Uncompressed" /\ ~headerOK)
       THEN Fail(ConfigErr)
       ELSE pc' = "unmarshal" /\ err' = err /\ call' = call
  /\ ev' = Event("init", 0, "", Root, <<>>, 0, <<>>)
  /\ UNCHANGED <<stack, dest, dtype, dest0, pos, short>>

(* decodeState.unmarshal: the top-level readTag, then readValue on v.Elem() *)
unmarshal ==
  /\ pc = "unmarshal"
  /\ \E o \in readTag(pos) :
       /\ pos' = o.pos
       /\ short' = (short \/ o.short)
       /\ ev' = Event("readTag", o.tag, "", Root, <<>>, 0, o.name)
       /\ IF ~o.ok THEN Fail(IOErr)
          ELSE pc' = "call" /\ err' = err /\ call' = [tag |-> o.tag, slot |-> Root]
  /\ UNCHANGED <<stack, dest, dtype, dest0>>

(* ---------------- readValue ---------------- *)
IsArchKindOnlyInt(k) == k = "int"

(* the first switch of readValue: architecture-width kinds are rejected *)
IsArchKind(k) == k \in {"int", "uint"}

RejectArch ==
  /\ pc = "call"
  /\ IsArchKind(Kind(SlotType(call.slot)))
  /\ Fail(PortabilityErr)
  /\ ev' = Event("arch", call.tag, Kind(SlotType(call.slot)), call.slot, <<>>, 0, <<>>)
  /\ UNCHANGED <<stack, dest, dtype, dest0, pos, short>>

(* reflect's Value.SetInt / SetUint / SetFloat store at the width of the kind *)
SetInt(k, x) == Trunc(x, Width(k))
SetUint(k, x) == Trunc(x, Width(k))
(* float32 -> float64 -> float32 and float64 -> float64 keep the bits *)
SetFloat(k, x) == Trunc(x, Width(k))

Stored(x) == [ok |-> TRUE, val |-> x]
NotStored == [ok |-> FALSE, val |-> <<>>]

(* the kind switches of the scalar cases; value is the fixed-width read *)
ByteValue(k, value) ==
  CASE k = "bool" -> Stored(Unsigned(value) # 0)
    [] k = "int8" -> Stored(SetInt(k, SignExtend(Trunc(value, 1), 8)))
    [] k = "uint8" -> Stored(SetUint(k, ZeroExtend(value, 8)))
    [] OTHER -> NotStored

ShortValue(k, value) ==
  CASE k = "int16" -> Stored(SetInt(k, SignExtend(Trunc(value, 2), 8)))
    [] k = "uint16" -> Stored(SetUint(k, ZeroExtend(value, 8)))
    [] OTHER -> NotStored

IntValue(k, value) ==
  CASE k = "int32" -> Stored(SetInt(k, SignExtend(Trunc(value, 2), 8)))
    [] k = "uint32" -> Stored(SetUint(k, ZeroExtend(value, 8)))
    [] OTHER -> NotStored

LongValue(k, value) ==
  CASE k = "int64" -> Stored(SetInt(k, SignExtend(Trunc(value, 8), 8)))
    [] k = "uint64" -> Stored(SetUint(k, value))
    [] OTHER -> NotStored

FloatValue(k, value) ==
  CASE k = "float32" -> Stored(SetFloat(k, value))
    [] OTHER -> NotStored

DoubleValue(k, value) ==
  CASE k = "float64" -> Stored(SetFloat(k, value))
    [] OTHER -> NotStored

(* v.Set...(x): panics inside reflect when v is not addressable *)
Assign(slot, x) ==
  IF slot.addr
  THEN dest' = SetAt(dest, slot.path, x) /\ Return
  ELSE dest' = dest /\ Fail(ReflectErr)

(* the kind switch of each scalar case *)
Convert(tag, k, value) ==
  CASE tag = TAG_Byte -> ByteValue(k, value)
    [] tag = TAG_Short -> ShortValue(k, value)
    [] tag = TAG_Int -> IntValue(k, value)
    [] tag = TAG_Long -> LongValue(k, value)
    [] tag = TAG_Float -> FloatValue(k, value)
    [] OTHER -> DoubleValue(k, value)

(* a scalar case: the fixed-width read, then the kind switch *)
ScalarCase(tag, w) ==
  /\ ~IsArchKind(Kind(SlotType(call.slot)))
  /\ \E o \in r(pos, w, Payloads(w)) :
       LET k == Kind(SlotType(call.slot))
           c == Convert(tag, k, o.val)
       IN /\ ev' = Event("scalar", tag, k, call.slot, o.val, w, <<>>)
          /\ pos' = o.pos
          /\ IF ~o.ok THEN dest' = dest /\ Fail(IOErr)
             ELSE IF ~c.ok THEN dest' = dest /\ Fail(MismatchErr(tag, k))
             ELSE Assign(call.slot, c.val)
  /\ UNCHANGED <<stack, dtype, dest0, short>>

DecodeByte ==
  /\ pc = "call"
  /\ call.tag = TAG_Byte
  /\ ScalarCase(TAG_Byte, 1)

DecodeShort ==
  /\ pc = "call"
  /\ call.tag = TAG_Short
  /\ ScalarCase(TAG_Short, 2)

DecodeInt ==
  /\ pc = "call"
  /\ call.tag = TAG_Int
  /\ ScalarCase(TAG_Int, 4)

DecodeLong ==
  /\ pc = "call"
  /\ call.tag = TAG_Long
  /\ ScalarCase(TAG_Long, 8)

DecodeFloat ==
  /\ pc = "call"
  /\ call.tag = TAG_Float
  /\ ScalarCase(TAG_Float, 4)

DecodeDouble ==
  /\ pc = "call"
  /\ call.tag = TAG_Double
  /\ ScalarCase(TAG_Double, 8)


MakeSlice(t, len, cap) ==
  [len |-> len, cap |-> cap, arr |-> [i \in 1..cap |-> Zero(Elem(t))]]

(* copy of the bytes one Read call delivered into the front of a buffer *)
CopyInto(buf, bytes) == bytes \o SubSeq(buf, Len(bytes) + 1, Len(buf))

(* capacity check of the fixed-capacity (array) destination *)
ArrayTooSmall(len, length) == len < length

DecodeByteArray ==
  /\ pc = "call"
  /\ ~IsArchKind(Kind(SlotType(call.slot)))
  /\ call.tag = TAG_Byte_Array
  /\ \E l \in r(pos, 4, LenVals(4, MaxArr)) :
       LET t == SlotType(call.slot)
           k == Kind(t)
           v == SlotValue(call.slot)
           length == Unsigned(l.val)
       IN IF ~l.ok
          THEN /\ Fail(IOErr)
               /\ ev' = Event("bytearray", call.tag, k, call.slot, <<>>, 0, <<>>)
               /\ UNCHANGED <<dest, pos, short>>
          ELSE CASE k = "array" ->
                      IF ArrayTooSmall(t.cap, length)
                      THEN /\ Fail(ByteArrayLenErr(length, t.cap))
                           /\ ev' = Event("bytearray", call.tag, k, call.slot, <<>>, length, <<>>)
                           /\ pos' = l.pos
                           /\ UNCHANGED <<dest, short>>
                      ELSE IF ~call.slot.addr
                      THEN /\ Fail(ReflectErr)
                           /\ ev' = Event("bytearray", call.tag, k, call.slot, <<>>, length, <<>>)
                           /\ pos' = l.pos
                           /\ UNCHANGED <<dest, short>>
                      ELSE \E o \in Read(l.pos, length, ArrBytes) :
                             /\ ev' = Event("bytearray", call.tag, k, call.slot, o.val, length, <<>>)
                             /\ pos' = o.pos
                             /\ IF ~o.ok THEN Fail(IOErr) /\ UNCHANGED <<dest, short>>
                                ELSE /\ dest' = SetAt(dest, call.slot.path, CopyInto(v, o.val))
                                     /\ short' = (short \/ Len(o.val) < length)
                                     /\ Return
                 [] k = "slice" ->
                      LET grown == IF v.cap < length THEN MakeSlice(t, length, length) ELSE v
                      IN IF (v.cap < length /\ ~call.slot.addr)
                         THEN /\ Fail(ReflectErr)
                              /\ ev' = Event("bytearray", call.tag, k, call.slot, <<>>, length, <<>>)
                              /\ pos' = l.pos
                              /\ UNCHANGED <<dest, short>>
                         ELSE IF t.elem # "uint8"
                         THEN /\ Fail(ReflectErr)
                              /\ ev' = Event("bytearray", call.tag, k, call.slot, <<>>, length, <<>>)
                              /\ pos' = l.pos
                              /\ dest' = SetAt(dest, call.slot.path, grown)
                              /\ UNCHANGED short
                         ELSE \E o \in Read(l.pos, length, ArrBytes) :
                                /\ ev' = Event("bytearray", call.tag, k, call.slot, o.val, length, <<>>)
                                /\ pos' = o.pos
                                /\ IF ~o.ok
                                   THEN /\ Fail(IOErr)
                                        /\ dest' = SetAt(dest, call.slot.path, grown)
                                        /\ UNCHANGED short
                                   ELSE /\ dest' = SetAt(dest, call.slot.path,
                                                     [grown EXCEPT !.arr = CopyInto(grown.arr, o.val)])
                                        /\ short' = (short \/ Len(o.val) < length)
                                        /\ Return
                 [] OTHER ->
                      /\ Fail(MismatchErr(call.tag, k))
                      /\ ev' = Event("bytearray", call.tag, k, call.slot, <<>>, length, <<>>)
                      /\ pos' = l.pos
                      /\ UNCHANGED <<dest, short>>
  /\ UNCHANGED <<stack, dtype, dest0>>

DecodeString ==
  /\ pc = "call"
  /\ ~IsArchKind(Kind(SlotType(call.slot)))
  /\ call.tag = TAG_String
  /\ LET k == Kind(SlotType(call.slot))
     IN IF k = "string"
        THEN \E s \in readString(pos, MaxStr) :
               /\ ev' = Event("string", call.tag, k, call.slot, s.val, Len(s.val), <<>>)
               /\ pos' = s.pos
               /\ short' = (short \/ s.short)
               /\ IF ~s.ok THEN dest' = dest /\ Fail(IOErr)
                  ELSE Assign(call.slot, s.val)
        ELSE /\ Fail(MismatchErr(call.tag, k))
             /\ ev' = Event("string", call.tag, k, call.slot, <<>>, 0, <<>>)
             /\ UNCHANGED <<dest, pos, short>>
  /\ UNCHANGED <<stack, dtype, dest0>>

(* case TAG_List up to the loop: inner tag and count are read before the   *)
(* kind switch; the destination slice is reset to length 0                 *)
ResetSlice(t, v, length) ==
  IF v.cap < length THEN MakeSlice(t, 0, length) ELSE [v EXCEPT !.len = 0]

DecodeList ==
  /\ pc = "call"
  /\ ~IsArchKind(Kind(SlotType(call.slot)))
  /\ call.tag = TAG_List
  /\ \E i \in r(pos, 1, [1..1 -> TagBytes]) :
       IF ~i.ok
       THEN /\ Fail(IOErr)
            /\ ev' = Event("list", call.tag, "", call.slot, <<>>, 0, <<>>)
            /\ UNCHANGED <<stack, dest, pos>>
       ELSE \E l \in r(i.pos, 4, LenVals(4, MaxCount)) :
              LET t == SlotType(call.slot)
                  k == Kind(t)
                  v == SlotValue(call.slot)
                  inner == i.val[1]
              IN /\ ev' = Event("list", call.tag, k, call.slot, i.val, 0, <<>>)
                 /\ pos' = l.pos
                 /\ IF ~l.ok THEN Fail(IOErr) /\ UNCHANGED <<stack, dest>>
                    ELSE IF k # "slice"
                    THEN Fail(MismatchErr(call.tag, k)) /\ UNCHANGED <<stack, dest>>
                    ELSE IF ~call.slot.addr
                    THEN Fail(ReflectErr) /\ UNCHANGED <<stack, dest>>
                    ELSE /\ dest' = SetAt(dest, call.slot.path, ResetSlice(t, v, Unsigned(l.val)))
                         /\ stack' = Append(stack, Frame("list", call.slot, t, inner,
                                                         Unsigned(l.val), Zero(Elem(t)), "loop"))
                         /\ pc' = "loop" /\ err' = err /\ call' = call
  /\ UNCHANGED <<dtype, dest0, short>>

(* the for statement of the list: the next element, or the end of the case *)
ListLoop ==
  /\ pc = "loop"
  /\ Top.fn = "list"
  /\ IF Top.i < Top.length
     THEN /\ stack' = SetTop(stack, [Top EXCEPT !.value = Zero(Elem(Top.typ))])
          /\ call' = [tag |-> Top.inner, slot |-> [addr |-> FALSE, path |-> <<>>]]
          /\ pc' = "call"
     ELSE /\ stack' = Pop(stack)
          /\ call' = call
          /\ pc' = "ret"
  /\ ev' = Event("listloop", Top.inner, "", Top.slot, <<>>, Top.length, <<>>)
  /\ UNCHANGED <<dest, dtype, dest0, pos, err, short>>

SliceAppend(v, x) ==
  IF v.len < v.cap
  THEN [v EXCEPT !.len = v.len + 1, !.arr = [v.arr EXCEPT ![v.len + 1] = x]]
  ELSE [len |-> v.len + 1, cap |-> v.len + 1, arr |-> SubSeq(v.arr, 1, v.len) \o <<x>>]

(* v.Set(reflect.Append(v, value)) after the element's readValue returned *)
ListAppend ==
  /\ pc = "ret"
  /\ stack # <<>>
  /\ Top.fn = "list"
  /\ dest' = SetAt(dest, Top.slot.path, SliceAppend(GetAt(dest, Top.slot.path), Top.value))
  /\ stack' = SetTop(stack, [Top EXCEPT !.i = Top.i + 1])
  /\ pc' = "loop"
  /\ ev' = Event("append", Top.inner, "", Top.slot, <<>>, Top.length, <<>>)
  /\ UNCHANGED <<call, dtype, dest0, pos, err, short>>

(* parseStruct: the name -> slot mapping of a struct value *)
parseStruct(t) == DOMAIN t.fields

DecodeCompound ==
  /\ pc = "call"
  /\ ~IsArchKind(Kind(SlotType(call.slot)))
  /\ call.tag = TAG_Compound
  /\ LET t == SlotType(call.slot)
         k == Kind(t)
     IN /\ ev' = Event("compound", call.tag, k, call.slot, <<>>, 0, <<>>)
        /\ IF k = "struct"
           THEN /\ stack' = Append(stack, Frame("compound", call.slot, t, 0, 0, <<>>, "awaiting"))
                /\ pc' = "loop" /\ err' = err /\ call' = call
           ELSE Fail(MismatchErr(call.tag, k)) /\ stack' = stack
  /\ UNCHANGED <<dest, dtype, dest0, pos, short>>

EndsCompoundOnUnknown(tag) == tag = TAG_End \/ tag = TAG_Int_Array

(* the loop of the compound ends on this tag *)
EndsCompound(tag) == tag = TAG_End

HasFieldOrEmptyName(fields, name) == name \in fields \/ name = <<>>

(* the lookup fields[name] *)
HasField(fields, name) == name \in fields

(* one iteration of the compound loop up to the dispatch *)
CompoundEntry ==
  /\ pc = "loop"
  /\ Top.fn = "compound"
  /\ \E o \in readTag(pos) :
       /\ pos' = o.pos
       /\ short' = (short \/ o.short)
       /\ ev' = Event("entry", o.tag, "", Top.slot, <<>>, 0, o.name)
       /\ IF ~o.ok THEN Fail(IOErr) /\ stack' = stack
          ELSE IF EndsCompound(o.tag)
          THEN stack' = Pop(stack) /\ pc' = "ret" /\ err' = err /\ call' = call
          ELSE IF HasField(parseStruct(Top.typ), o.name)
          THEN /\ stack' = SetTop(stack, [Top EXCEPT !.state = "dispatching"])
               /\ call' = [tag |-> o.tag,
                           slot |-> [addr |-> Top.slot.addr, path |-> Top.slot.path \o <<o.name>>]]
               /\ pc' = "call" /\ err' = err
          ELSE Fail(UnhandledFieldErr(o.tag, o.name)) /\ stack' = stack
  /\ UNCHANGED <<dest, dtype, dest0>>

(* the member's readValue returned: back to the head of the compound loop *)
CompoundResume ==
  /\ pc = "ret"
  /\ stack # <<>>
  /\ Top.fn = "compound"
  /\ stack' = SetTop(stack, [Top EXCEPT !.state = "awaiting"])
  /\ pc' = "loop"
  /\ ev' = Event("resume", 0, "", Top.slot, <<>>, 0, <<>>)
  /\ UNCHANGED <<call, dest, dtype, dest0, pos, err, short>>

HandledTags == {TAG_Byte, TAG_Short, TAG_Int, TAG_Long, TAG_Float, TAG_Double,
                TAG_Byte_Array, TAG_String, TAG_List, TAG_Compound}

(* the default case of the tag switch *)
UnhandledTag ==
  /\ pc = "call"
  /\ ~IsArchKind(Kind(SlotType(call.slot)))
  /\ call.tag \notin HandledTags
  /\ Fail(UnhandledTagErr(call.tag))
  /\ ev' = Event("default", call.tag, Kind(SlotType(call.slot)), call.slot, <<>>, 0, <<>>)
  /\ UNCHANGED <<stack, dest, dtype, dest0, pos, short>>

(* the top-level readValue returned: Unmarshal returns nil *)
Unmarshal ==
  /\ pc = "ret"
  /\ stack = <<>>
  /\ pc' = "done"
  /\ ev' = Event("return", 0, "", Root, <<>>, 0, <<>>)
  /\ UNCHANGED <<call, stack, dest, dtype, dest0, pos, err, short>>

Next ==
  \/ decodeState_init
  \/ unmarshal
  \/ RejectArch
  \/ DecodeByte
  \/ DecodeShort
  \/ DecodeInt
  \/ DecodeLong
  \/ DecodeFloat
  \/ DecodeDouble
  \/ DecodeByteArray
  \/ DecodeString
  \/ DecodeList
  \/ ListLoop
  \/ ListAppend
  \/ DecodeCompound
  \/ CompoundEntry
  \/ CompoundResume
  \/ UnhandledTag
  \/ Unmarshal

Spec == Init /\ [][Next]_vars

Succeeded == pc = "done" /\ err.type = "nil"
Failed == pc = "done" /\ err.type # "nil"

TypeOK ==
  /\ pc \in {"init", "unmarshal", "call", "loop", "ret", "done"}
  /\ pos \in 0..MaxStream
  /\ dtype \in DestTypes

(* ======================= properties ======================= *)
ScalarTags == {TAG_Byte, TAG_Short, TAG_Int, TAG_Long, TAG_Float, TAG_Double}
IntegerTags == {TAG_Byte, TAG_Short, TAG_Int, TAG_Long}
UnknownTags == TagBytes \ (HandledTags \cup {TAG_End})

(* integer kinds of the same width as the tag's payload *)
SameWidthInts(tag) ==
  CASE tag = TAG_Byte -> {"int8", "uint8"}
    [] tag = TAG_Short -> {"int16", "uint16"}
    [] tag = TAG_Int -> {"int32", "uint32"}
    [] tag = TAG_Long -> {"int64", "uint64"}
    [] OTHER -> {}

(* the compatibility table of the scalar tags *)
Table(tag) ==
  CASE tag = TAG_Byte -> {"bool", "int8", "uint8"}
    [] tag = TAG_Short -> {"int16", "uint16"}
    [] tag = TAG_Int -> {"int32", "uint32"}
    [] tag = TAG_Long -> {"int64", "uint64"}
    [] tag = TAG_Float -> {"float32"}
    [] tag = TAG_Double -> {"float64"}
    [] OTHER -> {}

(* C1: an integer scalar member decoded into a field of the same width     *)
(* holds exactly the payload bits (the same value, signed or unsigned);    *)
(* Byte 0xFF reads as -1 in an int8 and 255 in a uint8, and an Int keeps   *)
(* all 32 bits.                                                            *)
C1_IntegerPayloadStoredExactly ==
  (/\ ev.op = "scalar" /\ pc = "ret"
   /\ ev.tag \in IntegerTags
   /\ ev.kind \in SameWidthInts(ev.tag)
   /\ Len(ev.slot.path) >= 1)
  => LET stored == GetAt(dest, ev.slot.path)
     IN /\ stored = ev.payload
        /\ (ev.kind \in {"int8", "int16", "int32"} => Signed(stored) = Signed(ev.payload))
        /\ (ev.kind = "int8" /\ ev.payload = <<255>> => Signed(stored) = -1)
        /\ (ev.kind = "uint8" /\ ev.payload = <<255>> => Unsigned(stored) = 255)

(* C2: a List of Int with count n >= 1 decodes into a []int32 destination: *)
(* the decode is not aborted (unless the stream fails) and the destination *)
(* ends with length n.                                                     *)
C2_ListOfIntDecodes ==
  /\ (/\ pc = "done" /\ stack # <<>>
      /\ Top.fn = "list" /\ Top.inner = TAG_Int /\ Top.typ.elem = "int32")
     => err.type = "io"
  /\ (/\ ev.op = "listloop" /\ pc = "ret" /\ ev.tag = TAG_Int /\ ev.declared >= 1
      /\ TypeAt(dtype, ev.slot.path).elem = "int32")
     => GetAt(dest, ev.slot.path).len = ev.declared

(* C3: a named entry whose name is no field of the destination aborts the  *)
(* decode with the unhandled-field error naming it; nothing after the name *)
(* is consumed, nothing is written, and the decode does not go on.         *)
C3_UnknownFieldFails ==
  /\ [][(/\ pc = "loop" /\ Top.fn = "compound"
         /\ ev'.tag # TAG_End /\ err'.type # "io"
         /\ ev'.name \notin DOMAIN Top.typ.fields)
        => (/\ pc' = "done"
            /\ err' = UnhandledFieldErr(ev'.tag, ev'.name)
            /\ dest' = dest
            /\ stack' = stack
            /\ pos' >= pos + 3 /\ pos' <= pos + 3 + Len(ev'.name))]_vars
  /\ [][pc # "done"]_vars

C3_Witness ==
  /\ pc = "done" /\ err.type = "unhandled_field"
  /\ err.name = NameB /\ err.tag = TAG_Int
  /\ DOMAIN dtype.fields = {NameA}

(* C4: a ByteArray of declared length L into a byte array of capacity C:   *)
(* C < L fails citing L and C with nothing copied; C >= L succeeds with    *)
(* the first L bytes equal to the L payload bytes and the rest unchanged.  *)
C4_ByteArrayIntoArray ==
  [][(/\ pc = "call" /\ call.tag = TAG_Byte_Array /\ call.slot.addr
      /\ Kind(SlotType(call.slot)) = "array"
      /\ err'.type # "io")
     => LET L == ev'.declared
            C == SlotType(call.slot).cap
            old == GetAt(dest, call.slot.path)
            new == GetAt(dest', call.slot.path)
        IN IF C < L
           THEN pc' = "done" /\ err' = ByteArrayLenErr(L, C) /\ new = old
           ELSE /\ pc' = "ret"
                /\ Len(ev'.payload) = L
                /\ SubSeq(new, 1, L) = ev'.payload
                /\ SubSeq(new, L + 1, C) = SubSeq(old, L + 1, C)]_vars

(* C5: a compound whose first byte is End returns normally, consumes that  *)
(* one byte and leaves the whole destination as it was.                    *)
C5_EmptyCompound ==
  /\ [][(pc = "call" /\ call.tag = TAG_Compound /\ Kind(SlotType(call.slot)) = "struct")
        => (pc' = "loop" /\ dest' = dest /\ pos' = pos)]_vars
  /\ [][(/\ pc = "loop" /\ ev.op = "compound"
         /\ ev'.op = "entry" /\ ev'.tag = TAG_End /\ err'.type = "nil")
        => (/\ pc' = "ret"
            /\ stack' = Pop(stack)
            /\ pos' = pos + 1
            /\ dest' = dest
            /\ (stack' = <<>> => dest' = dest0))]_vars
  /\ [](pc = "ret" /\ stack = <<>> => err.type = "nil")

C5_Witness ==
  /\ pc = "done" /\ err.type = "nil"
  /\ dtype.kind = "struct" /\ DOMAIN dtype.fields = {NameA, NameB}
  /\ pos = 4
  /\ dest = Marked(dtype) /\ dest = dest0

(* C6: a slot of kind int or uint is rejected with the portability error,  *)
(* whatever the tag, before any byte of the entry is read and without      *)
(* writing the slot.                                                       *)
C6_ArchWidthRejected ==
  [][(pc = "call" /\ Kind(SlotType(call.slot)) \in ArchKinds)
     => (/\ pc' = "done"
         /\ err' = PortabilityErr
         /\ pos' = pos
         /\ dest' = dest
         /\ stack' = stack)]_vars

C6_Witness ==
  /\ pc = "done" /\ err.type = "portability"
  /\ ev.tag = TAG_Other /\ ev.kind = "uint"
  /\ Len(ev.slot.path) = 1

(* C7: a scalar payload dispatched into a slot of kind K (other than the   *)
(* architecture-width kinds, which C6 covers) is stored if and only if K   *)
(* is in the tag's row of the table; otherwise the decode fails naming the *)
(* tag and K, and the destination is not written.                          *)
C7_ScalarCompatibility ==
  [][(/\ pc = "call" /\ call.tag \in ScalarTags
      /\ Kind(SlotType(call.slot)) \notin ArchKinds
      /\ err'.type # "io")
     => LET K == Kind(SlotType(call.slot))
        IN IF K \in Table(call.tag)
           THEN pc' = "ret"
           ELSE pc' = "done" /\ err' = MismatchErr(call.tag, K) /\ dest' = dest]_vars

(* C8: Unmarshal never returns nil after a length-prefixed read delivered  *)
(* fewer bytes than the declared length.                                   *)
C8_UnderReadIsFatal == (pc = "done" /\ err.type = "nil") => ~short

(* C9: an unhandled tag value fails the decode with the unhandled-tag      *)
(* error wherever it is dispatched, and a List whose inner tag is          *)
(* unhandled never returns normally, whatever its count.                   *)
C9_UnknownTagFails ==
  /\ [][(/\ pc = "call" /\ call.tag \in UnknownTags
         /\ Kind(SlotType(call.slot)) \notin ArchKinds)
        => (pc' = "done" /\ err' = UnhandledTagErr(call.tag))]_vars
  /\ [](~(ev.op = "listloop" /\ pc = "ret" /\ ev.tag \in UnknownTags))

(* C10: a compound starts in awaiting-entry, leaves it for dispatching     *)
(* only on a non-End entry and comes back when the member returns, and     *)
(* returns normally only by reading an End tag byte while awaiting; a      *)
(* decode never succeeds with a compound still open.                       *)
C10_CompoundStateMachine ==
  /\ [][(Len(stack') = Len(stack) + 1 /\ stack'[Len(stack')].fn = "compound")
        => stack'[Len(stack')].state = "awaiting"]_vars
  /\ [][(stack # <<>> /\ Top.fn = "compound" /\ Len(stack') < Len(stack))
        => (/\ Top.state = "awaiting"
            /\ ev'.op = "entry" /\ ev'.tag = TAG_End
            /\ pos' = pos + 1
            /\ pc' = "ret" /\ err'.type = "nil")]_vars
  /\ [][(/\ stack # <<>> /\ Top.fn = "compound" /\ Len(stack') = Len(stack)
         /\ stack'[Len(stack)].state # Top.state)
        => \/ (/\ Top.state = "awaiting" /\ stack'[Len(stack)].state = "dispatching"
               /\ ev'.op = "entry" /\ ev'.tag # TAG_End /\ pc' = "call")
           \/ (/\ Top.state = "dispatching" /\ stack'[Len(stack)].state = "awaiting"
               /\ pc = "ret" /\ pc' = "loop")]_vars
  /\ [](pc = "done" /\ err.type = "nil" => stack = <<>>)
  /\ [](pc = "loop" /\ Top.fn = "compound" => Top.state = "awaiting")

C10_Witness ==
  /\ pc = "done" /\ err.type = "nil"
  /\ dtype.kind = "struct"
  /\ dest # dest0
  /\ pos >= 9

====
